---- MODULE Spec2Model ----
(***************************************************************************)
(* Model of app.py: the Telegram handler check_fines, the proxy selection  *)
(* it runs (get_proxy_list, test_proxy, get_working_proxy), the process-   *)
(* global SOCKS configuration written by set_socks_proxy, the two-step     *)
(* scrape of the portal and the formatting and delivery of the reply.      *)
(*                                                                         *)
(* Updates are handled one at a time: main() builds the Application with   *)
(* its default settings, under which an update's handler is awaited to     *)
(* completion before the next update is dispatched.                        *)
(*                                                                         *)
(* Strings the code searches or splits are sequences of one-character      *)
(* strings; user-visible messages are sequences of string pieces in the    *)
(* order the f-strings concatenate them.                                   *)
(***************************************************************************)
EXTENDS Integers, Sequences, FiniteSets, TLC

\* ---------------------------------------------------------------- bounds
MaxList == 3       \* longest candidate list the listing service returns
MaxFines == 2      \* longest results array / largest count in a response
MaxMsgs == 2       \* number of inbound messages handled in a run

\* ------------------------------------------------------ program constants
MAX_RETRIES == 5

\* ------------------------------------------------------- string functions
\* pat occurs in s at position i
MatchAt(s, pat, i) ==
    /\ i >= 1
    /\ i + Len(pat) - 1 <= Len(s)
    /\ \A k \in 1..Len(pat) : s[i + k - 1] = pat[k]

\* str.find, 1-based; 0 when pat does not occur in s
Find(s, pat) ==
    IF \E i \in 1..Len(s) : MatchAt(s, pat, i)
    THEN CHOOSE i \in 1..Len(s) :
            /\ MatchAt(s, pat, i)
            /\ \A j \in 1..(i - 1) : ~MatchAt(s, pat, j)
    ELSE 0

\* the Python operator: pat in s
Contains(s, pat) == Find(s, pat) # 0

\* str.split(sep) for a non-empty separator
RECURSIVE Split(_, _)
Split(s, sep) ==
    LET i == Find(s, sep)
    IN  IF i = 0 THEN <<s>>
        ELSE <<SubSeq(s, 1, i - 1)>> \o Split(SubSeq(s, i + Len(sep), Len(s)), sep)

\* str.strip() for the whitespace the model's texts contain
RECURSIVE LStrip(_)
LStrip(s) == IF s # <<>> /\ Head(s) = " " THEN LStrip(Tail(s)) ELSE s

RECURSIVE RStrip(_)
RStrip(s) ==
    IF s # <<>> /\ s[Len(s)] = " " THEN RStrip(SubSeq(s, 1, Len(s) - 1)) ELSE s

Strip(s) == RStrip(LStrip(s))

UpperChar(c) ==
    CASE c = "a" -> "A" [] c = "b" -> "B" [] c = "c" -> "C" [] c = "d" -> "D"
      [] OTHER -> c

\* str.upper()
Upper(s) == [i \in 1..Len(s) |-> UpperChar(s[i])]

\* update.message.text.strip().upper()
Normalize(text) == Upper(Strip(text))

\* str(n) for the counts a response carries
IntToStr(n) ==
    CASE n = 0 -> "0" [] n = 1 -> "1" [] n = 2 -> "2" [] n = 3 -> "3"
      [] n = 4 -> "4" [] OTHER -> "many"

\* int(port) in set_socks_proxy: the ports the listing service can return
PortIsInt(port) == port \in {"1080", "4145"}

PortToInt(port) == CASE port = "1080" -> 1080 [] port = "4145" -> 4145

\* all sequences over S of length at most n
SeqUpTo(S, n) == UNION {[1..k -> S] : k \in 0..n}

\* ------------------------------------------------------------- inputs
NL == <<"\n">>

QUOTE == <<"\"">>

MARKER == <<"c","s","r","f","_","t","o","k","e","n">>

VALUE_EQ == <<"v","a","l","u","e","=","\"">>

FIELD_PREFIX == <<"n","a","m","e","=","\"","c","s","r","f","_","t","o","k","e","n","\""," ","v","a","l","u","e","=","\"">>

TokenAB1 == <<"A","B","1">>

TokenZ9 == <<"Z","9">>

PreHtml == <<"<","h","t","m","l",">","\n">>

PreOtherInput == <<"<","i"," ","n","a","m","e","=","\"","q","\""," ","v","a","l","u","e","=","\"","X","\"",">">>

PreMention == <<"<","!","-","-"," ","c","s","r","f","_","t","o","k","e","n"," ","-","-",">","\n">>

PostHtml == <<"\n","<","/","h","t","m","l",">">>

PostOtherInput == <<"<","i"," ","n","a","m","e","=","\"","z","\""," ","v","a","l","u","e","=","\"","Q","\"",">">>

TextLower == <<" ","a","b","1"," ">>

TextUpper == <<"A","B","1">>

TextOther == <<"c","d","2"," ">>

\* update.message.text values users send
Texts == {TextLower, TextUpper, TextOther}

\* (ip, port) pairs of the listing service; the last one carries a port
\* that int() rejects
Proxy1 == [ip |-> "10.0.0.1", port |-> "1080"]

Proxy2 == [ip |-> "10.0.0.2", port |-> "4145"]

ProxyBadPort == [ip |-> "10.0.0.3", port |-> "x"]

Proxies == {Proxy1, Proxy2, ProxyBadPort}

\* Python None as returned by get_working_proxy
NoneProxy == [ip |-> "", port |-> ""]

\* socks default proxy before any set_default_proxy call
NoDefault == [host |-> "", port |-> 0]

\* outcomes of requests.get on the listing URL followed by raise_for_status,
\* response.json() and the list comprehension
FetchOutcomes ==
    {[exc |-> e, list |-> <<>>] :
        e \in {"ConnectTimeout", "HTTPError", "JSONDecodeError", "KeyError"}}
    \cup {[exc |-> "none", list |-> l] : l \in SeqUpTo(Proxies, MaxList)}

\* outcomes of one probe: int(port) failing, the GET raising, or a status
ProbeOutcomes(p) ==
    IF ~PortIsInt(p.port)
    THEN {[exc |-> "ValueError", status |-> 0]}
    ELSE {[exc |-> e, status |-> 0] : e \in {"ConnectTimeout", "SSLError"}}
         \cup {[exc |-> "none", status |-> st] : st \in {200, 204, 503}}

NoOutcome == [exc |-> "none", status |-> 0]

TokenValues == {TokenAB1, TokenZ9}

\* the csrf_token input field as the portal embeds it
Field(v) == <<"<", "i", " ">> \o FIELD_PREFIX \o v \o <<"\"", ">">>

Prefixes == {<<>>, PreHtml, PreOtherInput, PreMention}

Suffixes == {<<>>, PostHtml, PostOtherInput}

\* landing-page bodies: with the field (any prefix and suffix), without any
\* mention of csrf_token, and with an empty field value
Bodies ==
    {pre \o Field(v) \o post : pre \in Prefixes, v \in TokenValues, post \in Suffixes}
    \cup {pre \o post : pre \in {<<>>, PreHtml, PreOtherInput}, post \in Suffixes}
    \cup {Field(<<>>)}

\* outcomes of session.get followed by raise_for_status
GetOutcomes ==
    {[exc |-> e, status |-> 0, text |-> <<>>] : e \in {"ConnectTimeout", "ConnectionError"}}
    \cup {[exc |-> "none", status |-> 503, text |-> <<>>]}
    \cup {[exc |-> "none", status |-> 200, text |-> b] : b \in Bodies}

FineRecords ==
    {[violationDate |-> "2024-01-05", protocolAmount |-> "50", lastDate |-> "2024-02-05"],
     [violationDate |-> "2024-03-09", protocolAmount |-> "100", lastDate |-> "2024-04-09"]}

\* value of response.json() when no JSON was parsed
NoResult ==
    [json |-> FALSE, success |-> FALSE, hasMessage |-> FALSE, message |-> "",
     hasData |-> FALSE, count |-> 0, results |-> <<>>]

\* bodies of the search response: not JSON, success false with and without
\* a message, success true without data, success true with count and results
PostResults ==
    {NoResult}
    \cup {[NoResult EXCEPT !.json = TRUE, !.hasMessage = TRUE, !.message = "bad plate"],
          [NoResult EXCEPT !.json = TRUE]}
    \cup {[NoResult EXCEPT !.json = TRUE, !.success = TRUE]}
    \cup {[NoResult EXCEPT !.json = TRUE, !.success = TRUE, !.hasData = TRUE,
                           !.count = c, !.results = rs] :
            c \in 0..MaxFines, rs \in SeqUpTo(FineRecords, MaxFines)}

\* outcomes of session.post followed by raise_for_status
PostOutcomes ==
    {[exc |-> e, status |-> 0, result |-> NoResult] : e \in {"ReadTimeout"}}
    \cup {[exc |-> "none", status |-> 500, result |-> NoResult]}
    \cup {[exc |-> "none", status |-> 200, result |-> r] : r \in PostResults}

\* which except clause takes the decode error of response.json(): requests
\* from 2.27 raises a JSONDecodeError that is also a RequestException, older
\* versions raise json.JSONDecodeError only
JsonErrorClauses == {"RequestException", "JSONDecodeError"}

\* outcomes of update.message.reply_text
DeliveryOutcomes == {"ok", "TimedOut", "NetworkError"}

\* ----------------------------------------------------------- reply texts
NoProxyReply == <<"Sorry, couldn't find a working proxy. Please try again later.">>

TokenMissingReply ==
    <<"Sorry, couldn't retrieve the necessary information. Please try again later.">>

ParseErrorReply ==
    <<"Sorry, couldn't process the response from the server. The response wasn't in the expected format.">>

ApologyReply ==
    <<"Sorry, there was an error sending the response. Please try again later.">>

TransportErrorReply(detail) == <<"Sorry, there was an error checking for fines: ", detail>>

UnexpectedReply(detail) == <<"An unexpected error occurred: ", detail>>

ServerErrorReply(r) ==
    <<"The server reported an error: ", IF r.hasMessage THEN r.message ELSE "Unknown error">>

NoFinesReply(vehicle) == <<"No fines found for vehicle ">> \o vehicle \o <<".">>

FoundHeader(count, vehicle) ==
    <<"Found ", IntToStr(count), " fine(s) for vehicle ">> \o vehicle \o <<":\n\n">>

FineBlock(fine) ==
    <<"Date: ", fine.violationDate, "\n",
      "Amount: ", fine.protocolAmount, " GEL\n",
      "Due date: ", fine.lastDate, "\n\n">>

\* variant of FineBlocks: each block is put in front of the earlier ones
RECURSIVE FineBlocksPrepend(_)
FineBlocksPrepend(fines) ==
    IF fines = <<>> THEN <<>>
    ELSE FineBlocksPrepend(Tail(fines)) \o FineBlock(Head(fines))

\* the loop "for fine in fines: message += ..."
RECURSIVE FineBlocks(_)
FineBlocks(fines) ==
    IF fines = <<>> THEN <<>> ELSE FineBlock(Head(fines)) \o FineBlocks(Tail(fines))

\* lines 124-136: the message for a parsed response
ResultMessage(r, vehicle) ==
    IF r.success
    THEN IF ~r.hasData THEN UnexpectedReply("'data'")
         ELSE IF r.count > 0
              THEN FoundHeader(r.count, vehicle) \o FineBlocks(r.results)
              ELSE NoFinesReply(vehicle)
    ELSE ServerErrorReply(r)

\* ------------------------------------------------------- token extraction
\* variant of LineHasMarker: the first line is taken without the marker test
LineHasMarkerAlways(line) == TRUE

\* "if 'csrf_token' in line"
LineHasMarker(line) == Contains(line, MARKER)

NoToken == [exc |-> "none", found |-> FALSE, value |-> <<>>]

\* line.split('value="')[1].split('"')[0]
TokenOfLine(line) ==
    LET parts == Split(line, VALUE_EQ)
    IN  IF Len(parts) < 2
        THEN [exc |-> "IndexError", found |-> FALSE, value |-> <<>>]
        ELSE [exc |-> "none", found |-> TRUE, value |-> Split(parts[2], QUOTE)[1]]

\* lines 84-88: the first line mentioning the marker decides
ExtractToken(text) ==
    LET lines == Split(text, NL)
        hits == {i \in 1..Len(lines) : LineHasMarker(lines[i])}
    IN  IF hits = {} THEN NoToken
        ELSE TokenOfLine(lines[CHOOSE i \in hits : \A j \in hits : i <= j])

\* "if not csrf_token"
TokenMissing(t) == ~t.found \/ t.value = <<>>

\* ------------------------------------------------------------ proxy code
\* the global left by set_socks_proxy(host, port) when int(port) succeeds
set_socks_proxy(p) == [host |-> p.ip, port |-> PortToInt(p.port)]

\* variant of test_proxy: any status below 400 counts (response.ok)
test_proxy_ok(o) == o.exc = "none" /\ o.status < 400

\* return value of test_proxy for a probe outcome
test_proxy(o) == o.exc = "none" /\ o.status = 200

\* variant of Candidate: the list is walked from its end
CandidateReversed(list, i) == list[Len(list) + 1 - i]

\* the loop variable of "for proxy in proxy_list"
Candidate(list, i) == list[i]

\* variant of PassesLeft: one pass too many
PassesLeftOffByOne(p) == p <= MAX_RETRIES + 1

\* "for _ in range(MAX_RETRIES)" has passes left
PassesLeft(p) == p <= MAX_RETRIES

NoProbe == [proxy |-> NoneProxy, outcome |-> NoOutcome, result |-> FALSE]

NoData == [firstResult |-> "", protocolAuto |-> <<>>, csrf_token |-> <<>>]

\* ------------------------------------------------------------------ state
VARIABLES
    socksDefault,     \* socks.set_default_proxy: the process-global default proxy
    socketPatched,    \* socket.socket is socks.socksocket
    handled,          \* updates dispatched to check_fines so far
    pc,               \* position of the handler
    vehicle_number,   \* check_fines local
    proxy_list,       \* get_working_proxy local
    pass,             \* current pass of "for _ in range(MAX_RETRIES)", from 1
    idx,              \* position of "for proxy in proxy_list", from 1
    lastProbe,        \* the latest test_proxy call: candidate, outcome, result
    probes,           \* test_proxy calls made by this get_working_proxy call
    failed,           \* of which returned False
    fetches,          \* get_proxy_list calls made by this get_working_proxy call
    fetchExc,         \* the exception get_proxy_list caught, "none" if none
    proxy,            \* return value of get_working_proxy
    body,             \* response.text of the landing page
    data,             \* the POST form
    result,           \* response.json() of the search response
    message,          \* check_fines local
    replies,          \* reply_text calls of this handler: text and outcome
    gets,             \* session.get calls of this handler
    posts,            \* session.post calls of this handler
    getOK,            \* session.get returned and raise_for_status passed
    entryDefault,     \* socksDefault when the handler was entered
    entryPatched      \* socketPatched when the handler was entered

vars ==
    <<socksDefault, socketPatched, handled, pc, vehicle_number, proxy_list, pass,
      idx, lastProbe, probes, failed, proxy, body, data, result, message,
      replies, gets, posts, getOK, fetches, fetchExc, entryDefault, entryPatched>>

globals == <<socksDefault, socketPatched>>

selection == <<proxy_list, pass, idx, lastProbe, probes, failed, fetches, fetchExc>>

lookup == <<body, data, result, message, gets, posts, getOK>>

entry == <<entryDefault, entryPatched>>

Init ==
    /\ socksDefault = NoDefault
    /\ socketPatched = FALSE
    /\ handled = 0
    /\ pc = "idle"
    /\ vehicle_number = <<>>
    /\ proxy_list = <<>>
    /\ pass = 1
    /\ idx = 1
    /\ lastProbe = NoProbe
    /\ probes = 0
    /\ failed = 0
    /\ fetches = 0
    /\ fetchExc = "none"
    /\ proxy = NoneProxy
    /\ body = <<>>
    /\ data = NoData
    /\ result = NoResult
    /\ message = <<>>
    /\ replies = <<>>
    /\ gets = 0
    /\ posts = 0
    /\ getOK = FALSE
    /\ entryDefault = NoDefault
    /\ entryPatched = FALSE

\* the locals of get_working_proxy go away when it has returned
SelectionCleared ==
    /\ proxy_list' = <<>>
    /\ pass' = 1
    /\ idx' = 1
    /\ lastProbe' = NoProbe
    /\ probes' = 0
    /\ failed' = 0
    /\ fetches' = 0
    /\ fetchExc' = "none"

\* ---------------------------------------------------------------- actions
\* line 63: the dispatcher calls check_fines for the next text message
Start ==
    /\ pc \in {"idle", "done", "raised"}
    /\ handled < MaxMsgs
    /\ \E text \in Texts : vehicle_number' = Normalize(text)
    /\ handled' = handled + 1
    /\ pc' = "fetch"
    /\ entryDefault' = socksDefault
    /\ entryPatched' = socketPatched
    /\ SelectionCleared
    /\ proxy' = NoneProxy
    /\ body' = <<>>
    /\ data' = NoData
    /\ result' = NoResult
    /\ message' = <<>>
    /\ replies' = <<>>
    /\ gets' = 0
    /\ posts' = 0
    /\ getOK' = FALSE
    /\ UNCHANGED globals

\* lines 24-33 and 49: every failure of the fetch yields the empty list
get_proxy_list ==
    /\ pc = "fetch"
    /\ \E o \in FetchOutcomes :
          /\ proxy_list' = IF o.exc = "none" THEN o.list ELSE <<>>
          /\ fetchExc' = o.exc
    /\ fetches' = fetches + 1
    /\ pass' = 1
    /\ idx' = 1
    /\ pc' = "select"
    /\ UNCHANGED <<globals, handled, vehicle_number, lastProbe, probes, failed,
                   proxy, lookup, replies, entry>>

\* lines 39-46 and 51-54: one probe of the current candidate
TestProxy ==
    /\ pc = "select"
    /\ PassesLeft(pass)
    /\ idx <= Len(proxy_list)
    /\ LET c == Candidate(proxy_list, idx)
       IN  \E o \in ProbeOutcomes(c) :
              /\ IF o.exc = "ValueError"
                 THEN UNCHANGED globals
                 ELSE /\ socksDefault' = set_socks_proxy(c)
                      /\ socketPatched' = TRUE
              /\ lastProbe' = [proxy |-> c, outcome |-> o, result |-> test_proxy(o)]
              /\ probes' = probes + 1
              /\ IF test_proxy(o)
                 THEN /\ proxy' = c
                      /\ pc' = "ret"
                      /\ UNCHANGED <<idx, failed>>
                 ELSE /\ idx' = idx + 1
                      /\ failed' = failed + 1
                      /\ UNCHANGED <<proxy, pc>>
    /\ UNCHANGED <<handled, vehicle_number, proxy_list, pass, fetches, fetchExc,
                   lookup, replies, entry>>

\* line 55: the list is exhausted, the next pass starts from its beginning
NextPass ==
    /\ pc = "select"
    /\ PassesLeft(pass)
    /\ idx > Len(proxy_list)
    /\ pass' = pass + 1
    /\ idx' = 1
    /\ UNCHANGED <<globals, handled, pc, vehicle_number, proxy_list, lastProbe,
                   probes, failed, fetches, fetchExc, proxy, lookup, replies, entry>>

\* lines 56-57
ReturnNone ==
    /\ pc = "select"
    /\ ~PassesLeft(pass)
    /\ proxy' = NoneProxy
    /\ pc' = "ret"
    /\ UNCHANGED <<globals, handled, vehicle_number, selection, lookup, replies, entry>>

\* lines 67-69: the reply is sent outside any try block
ReplyNoProxy ==
    /\ pc = "ret"
    /\ proxy = NoneProxy
    /\ \E d \in DeliveryOutcomes :
          /\ replies' = Append(replies, [text |-> NoProxyReply, outcome |-> d])
          /\ pc' = IF d = "ok" THEN "done" ELSE "raised"
    /\ SelectionCleared
    /\ UNCHANGED <<globals, handled, vehicle_number, proxy, lookup, entry>>

\* line 71
UseProxy ==
    /\ pc = "ret"
    /\ proxy # NoneProxy
    /\ IF PortIsInt(proxy.port)
       THEN /\ socksDefault' = set_socks_proxy(proxy)
            /\ socketPatched' = TRUE
            /\ pc' = "get"
       ELSE /\ pc' = "raised"
            /\ UNCHANGED globals
    /\ SelectionCleared
    /\ UNCHANGED <<handled, vehicle_number, proxy, lookup, replies, entry>>

\* variant of AfterGetFailure: the GET is issued again
AfterGetFailureRetry == "get"

\* where a failed landing-page GET leaves the handler (lines 138-140)
AfterGetFailure == "reply"

\* lines 75-81
SessionGet ==
    /\ pc = "get"
    /\ gets' = gets + 1
    /\ \E o \in GetOutcomes :
          IF o.exc # "none"
          THEN /\ message' = TransportErrorReply(o.exc)
               /\ pc' = AfterGetFailure
               /\ UNCHANGED <<body, getOK>>
          ELSE IF o.status >= 400
          THEN /\ message' = TransportErrorReply("HTTPError")
               /\ pc' = AfterGetFailure
               /\ UNCHANGED <<body, getOK>>
          ELSE /\ body' = o.text
               /\ getOK' = TRUE
               /\ pc' = "parse"
               /\ UNCHANGED message
    /\ UNCHANGED <<globals, handled, vehicle_number, selection, proxy, data, result,
                   replies, posts, entry>>

\* lines 84-93 and 108-112
ParseToken ==
    /\ pc = "parse"
    /\ LET t == ExtractToken(body)
       IN  IF t.exc # "none"
           THEN /\ message' = UnexpectedReply("list index out of range")
                /\ pc' = "reply"
                /\ UNCHANGED <<data, replies>>
           ELSE IF TokenMissing(t)
           THEN \E d \in DeliveryOutcomes :
                   /\ replies' = Append(replies, [text |-> TokenMissingReply, outcome |-> d])
                   /\ IF d = "ok"
                      THEN pc' = "done" /\ UNCHANGED message
                      ELSE pc' = "reply" /\ message' = UnexpectedReply(d)
                   /\ UNCHANGED data
           ELSE /\ data' = [firstResult |-> "0", protocolAuto |-> vehicle_number,
                            csrf_token |-> t.value]
                /\ pc' = "post"
                /\ UNCHANGED <<message, replies>>
    /\ UNCHANGED <<globals, handled, vehicle_number, selection, proxy, body, result,
                   gets, posts, getOK, entry>>

\* lines 113-147
SessionPost ==
    /\ pc = "post"
    /\ posts' = posts + 1
    /\ \E o \in PostOutcomes :
          IF o.exc # "none"
          THEN /\ message' = TransportErrorReply(o.exc)
               /\ UNCHANGED result
          ELSE IF o.status >= 400
          THEN /\ message' = TransportErrorReply("HTTPError")
               /\ UNCHANGED result
          ELSE IF ~o.result.json
          THEN /\ \E clause \in JsonErrorClauses :
                     message' = IF clause = "RequestException"
                                THEN TransportErrorReply("JSONDecodeError")
                                ELSE ParseErrorReply
               /\ UNCHANGED result
          ELSE /\ result' = o.result
               /\ message' = ResultMessage(o.result, vehicle_number)
    /\ pc' = "reply"
    /\ UNCHANGED <<globals, handled, vehicle_number, selection, proxy, body, data,
                   replies, gets, getOK, entry>>

\* lines 149-152
SendReply ==
    /\ pc = "reply"
    /\ \E d \in DeliveryOutcomes :
          /\ replies' = Append(replies, [text |-> message, outcome |-> d])
          /\ pc' = IF d = "ok" THEN "done" ELSE "apology"
    /\ UNCHANGED <<globals, handled, vehicle_number, selection, proxy, lookup, entry>>

\* line 153: the apology is sent from inside the except clause
SendApology ==
    /\ pc = "apology"
    /\ \E d \in DeliveryOutcomes :
          /\ replies' = Append(replies, [text |-> ApologyReply, outcome |-> d])
          /\ pc' = IF d = "ok" THEN "done" ELSE "raised"
    /\ UNCHANGED <<globals, handled, vehicle_number, selection, proxy, lookup, entry>>

Next ==
    \/ Start
    \/ get_proxy_list
    \/ TestProxy
    \/ NextPass
    \/ ReturnNone
    \/ ReplyNoProxy
    \/ UseProxy
    \/ SessionGet
    \/ ParseToken
    \/ SessionPost
    \/ SendReply
    \/ SendApology

Spec == Init /\ [][Next]_vars

\* the synchronous code of get_working_proxy runs to its return
FairSpec ==
    /\ Spec
    /\ WF_vars(get_proxy_list)
    /\ WF_vars(TestProxy)
    /\ WF_vars(NextPass)
    /\ WF_vars(ReturnNone)

\* ------------------------------------------------------------- properties
InSelection == pc \in {"select", "ret"}

Returned == pc = "ret"

\* the candidate the k-th probe of a get_working_proxy call is made on:
\* passes in sequence, candidates in listed order within a pass
ProbeTarget(k) == proxy_list[((k - 1) % Len(proxy_list)) + 1]

\* C1: get_working_proxy returns the candidate of the first successful probe
\* in probe order: when it returns p, the latest probe was the successful
\* probe of p, every probe before it returned False, p is the candidate that
\* probe order puts at that probe and an element of the fetched list; when it
\* returns None, every probe of all MAX_RETRIES passes returned False.
C1_FirstSuccessWins ==
    /\ InSelection /\ probes > 0 => lastProbe.proxy = ProbeTarget(probes)
    /\ Returned /\ proxy # NoneProxy =>
          /\ lastProbe.result
          /\ lastProbe.proxy = proxy
          /\ failed = probes - 1
          /\ proxy = ProbeTarget(probes)
          /\ \E i \in 1..Len(proxy_list) : proxy_list[i] = proxy
    /\ Returned /\ proxy = NoneProxy =>
          /\ failed = probes
          /\ probes = MAX_RETRIES * Len(proxy_list)

\* C1 witness: only the third entry of a three-entry list probed live
C1_Witness ==
    /\ Returned
    /\ Len(proxy_list) = 3
    /\ probes = 3
    /\ failed = 2
    /\ proxy = proxy_list[3]
    /\ proxy # proxy_list[1]
    /\ proxy # proxy_list[2]

\* C2: a reply_text call that fails with a delivery error never ends the
\* handler with an exception, and the reply sent after a failed one is the
\* generic apology.
C2_ReplyFailuresContained ==
    /\ pc # "raised"
    /\ \A i \in 1..Len(replies) :
          replies[i].outcome # "ok" /\ i < Len(replies) =>
             replies[i + 1].text = ApologyReply

TokenStepDone == getOK /\ pc # "parse"

\* C3 as stated: when the fetched landing page has no occurrence of
\* csrf_token, the reply sent is the ParseError reply.
C3_ParseErrorReply ==
    TokenStepDone /\ ~Contains(body, MARKER) =>
        /\ replies # <<>>
        /\ replies[1].text = ParseErrorReply

\* C3 amended: when the fetched landing page has no occurrence of
\* csrf_token, no search POST is issued, the first reply sent is the
\* token-missing reply and no reply of the handler is the ParseError reply.
C3_TokenMissingReply ==
    TokenStepDone /\ ~Contains(body, MARKER) =>
        /\ posts = 0
        /\ replies # <<>>
        /\ replies[1].text = TokenMissingReply
        /\ \A i \in 1..Len(replies) : replies[i].text # ParseErrorReply

\* C3 witness: a page without the marker was answered and the handler returned
C3_Witness ==
    /\ pc = "done"
    /\ getOK
    /\ body # <<>>
    /\ ~Contains(body, MARKER)
    /\ Len(replies) = 1
    /\ replies[1].outcome = "ok"

\* C4: when the landing page contains name="csrf_token" value="V", the
\* csrf_token of the POST form is exactly V, whatever precedes or follows.
C4_TokenIsFieldValue ==
    \A v \in TokenValues :
        /\ pc = "post" \/ posts > 0
        /\ Contains(body, FIELD_PREFIX \o v \o QUOTE)
        => data.csrf_token = v

\* C5: get_working_proxy calls get_proxy_list once, makes at most
\* MAX_RETRIES * n probes, returns a candidate of the list or None, and
\* returns None after zero probes when the fetch failed in any way; having
\* been called it always returns.
C5_Bounded ==
    /\ InSelection =>
          /\ fetches = 1
          /\ probes <= MAX_RETRIES * Len(proxy_list)
          /\ fetchExc # "none" => proxy_list = <<>> /\ probes = 0
    /\ Returned =>
          \/ proxy = NoneProxy
          \/ \E i \in 1..Len(proxy_list) : proxy_list[i] = proxy
    /\ Returned /\ fetchExc # "none" => proxy = NoneProxy

C5_SoftAndTerminating == []C5_Bounded /\ (pc = "fetch" ~> Returned)

\* C5 witness: None returned after every probe of every pass failed
C5_Witness ==
    /\ Returned
    /\ proxy = NoneProxy
    /\ Len(proxy_list) = MaxList
    /\ probes = MAX_RETRIES * MaxList

\* C6: a probe counts as live only when its GET completed with status 200;
\* an exception of the port conversion or of the request, and any other
\* status, count as a failed probe, after which get_working_proxy goes on and
\* does not return that candidate.
C6_ProbeLiveOnly200 ==
    InSelection /\ probes > 0 =>
        /\ lastProbe.result => lastProbe.outcome.exc = "none" /\ lastProbe.outcome.status = 200
        /\ lastProbe.outcome.exc # "none" => ~lastProbe.result /\ proxy = NoneProxy
        /\ lastProbe.outcome.status # 200 => ~lastProbe.result /\ proxy = NoneProxy
        /\ Returned /\ proxy # NoneProxy => lastProbe.outcome.status = 200

\* C6 witness: the port conversion raised and the selection went on
C6_Witness ==
    /\ pc = "select"
    /\ probes > 0
    /\ lastProbe.outcome.exc = "ValueError"
    /\ ~lastProbe.result

\* the pieces that follow each occurrence of label in a message
RECURSIVE PiecesAfter(_, _)
PiecesAfter(msg, label) ==
    IF Len(msg) < 2 THEN <<>>
    ELSE IF Head(msg) = label
         THEN <<msg[2]>> \o PiecesAfter(Tail(msg), label)
         ELSE PiecesAfter(Tail(msg), label)

WellFormedSuccess ==
    /\ result.json
    /\ result.success
    /\ result.hasData
    /\ result.count = Len(result.results)

\* C7: for a success response with count = n > 0 and n records the message
\* is the header for n and the vehicle followed by exactly n blocks whose
\* dates, amounts and due dates are those of the records in response order;
\* for count = 0 it is exactly "No fines found for vehicle X.".
C7_BlocksInOrder ==
    WellFormedSuccess =>
        LET n == result.count
            head == <<"Found ", IntToStr(n), " fine(s) for vehicle ">>
                        \o vehicle_number \o <<":\n\n">>
        IN  IF n > 0
            THEN /\ Len(message) = Len(head) + 9 * n
                 /\ SubSeq(message, 1, Len(head)) = head
                 /\ PiecesAfter(message, "Date: ") =
                       [i \in 1..n |-> result.results[i].violationDate]
                 /\ PiecesAfter(message, "Amount: ") =
                       [i \in 1..n |-> result.results[i].protocolAmount]
                 /\ PiecesAfter(message, "Due date: ") =
                       [i \in 1..n |-> result.results[i].lastDate]
            ELSE message = <<"No fines found for vehicle ">> \o vehicle_number \o <<".">>

\* C7 witness: two different records were formatted
C7_Witness ==
    /\ pc = "reply"
    /\ WellFormedSuccess
    /\ result.count = 2
    /\ result.results[1] # result.results[2]

\* C8: per message the landing-page GET and the search POST are issued at
\* most once each, the POST only after the GET succeeded and a non-empty
\* token was extracted from its body, neither when no proxy was found.
C8_LookupCallsOnce ==
    /\ gets <= 1
    /\ posts <= 1
    /\ posts = 1 =>
          /\ gets = 1
          /\ getOK
          /\ ~TokenMissing(ExtractToken(body))
          /\ data.csrf_token = ExtractToken(body).value
    /\ proxy = NoneProxy => gets = 0 /\ posts = 0
    /\ gets = 1 /\ ~getOK => posts = 0

\* C8 witness: the GET failed and the handler returned without another call
C8_Witness ==
    /\ pc = "done"
    /\ gets = 1
    /\ ~getOK
    /\ posts = 0

\* C10: when the handler has finished, the global SOCKS default proxy and
\* the socket factory are what they were when it was entered.
C10_GlobalsRestored ==
    pc \in {"done", "raised"} =>
        /\ socksDefault = entryDefault
        /\ socketPatched = entryPatched

====
